---- MODULE Spec2Model ----
(***************************************************************************)
(* Model of gcr.io_mirror's main.go: rule loading, the issue fetch, the    *)
(* per-issue goroutines and mirrorByIssues (reference rewriting followed   *)
(* by docker login / pull / tag / push).                                   *)
(*                                                                         *)
(* Strings are sequences of one-character strings, so that the regular     *)
(* expression replacement, the case folding and the '/' -> '.' flattening  *)
(* are computed character by character as the Go code computes them.       *)
(***************************************************************************)
EXTENDS Integers, Sequences, FiniteSets, TLC

VARIABLES
    mainPc,     \* position of main: "load", "fetch", "wait", "returned", "exited", "crashed"
    rulesFile,  \* what ioutil.ReadFile(RulesFile) / yaml.Unmarshal will see
    config,     \* the global Config: Registry, RegistryNamespace, Rules
    issues,     \* titles of the issues ListByRepo returned
    pc,         \* position of each per-issue goroutine
    origin,     \* originImageName of each goroutine
    substituted,\* targetImageName as the rule loop left it (the source when it did not run)
    target,     \* targetImageName of each goroutine
    variant,    \* how the rewriting part of mirrorByIssues ended
    err,        \* the error mirrorByIssues returned ("unset" until it returns)
    calls       \* the GitHub / docker calls each goroutine has made, in order

vars == <<mainPc, rulesFile, config, issues, pc, origin, substituted, target, variant, err, calls>>

(***************************************************************************)
(* Bounds                                                                  *)
(***************************************************************************)
\* largest issue list a run with --github.max_count > 1 is given
MaxIssues == 2
\* longest title drawn from the small alphabet
MaxTitleLen == 2
\* default of --github.max_count: ListByRepo is asked for one issue
DefaultMaxCount == 1

(***************************************************************************)
(* String constants                                                        *)
(***************************************************************************)
Empty == <<>>
PorterTag == <<"[","P","O","R","T","E","R","]">>
K_gcr == <<"^","g","c","r",".","i","o">>
K_docker == <<"^","d","o","c","k","e","r",".","i","o">>
K_k8s == <<"^","k","8","s",".","g","c","r",".","i","o">>
K_registry == <<"^","r","e","g","i","s","t","r","y",".","k","8","s",".","i","o">>
K_quay == <<"^","q","u","a","y",".","i","o">>
K_ghcr == <<"^","g","h","c","r",".","i","o">>
V_docker == <<"d","o","c","k","e","r">>
V_google == <<"g","o","o","g","l","e","-","c","o","n","t","a","i","n","e","r","s">>
V_quay == <<"q","u","a","y">>
V_ghcr == <<"g","h","c","r">>

\* config.Rules as main sets it before the rules file is read
DefaultRules ==
    (K_gcr :> Empty) @@ (K_docker :> V_docker) @@ (K_k8s :> V_google) @@
    (K_registry :> V_google) @@ (K_quay :> V_quay) @@ (K_ghcr :> V_ghcr)

NoRules == [k \in {} |-> Empty]

(***************************************************************************)
(* strings.* helpers                                                       *)
(***************************************************************************)
UpperChars == <<"A","B","C","D","E","F","G","H","I","J","K","L","M","N","O","P","Q","R","S","T","U","V","W","X","Y","Z">>
LowerChars == <<"a","b","c","d","e","f","g","h","i","j","k","l","m","n","o","p","q","r","s","t","u","v","w","x","y","z">>

\* simple case folding of one (ASCII) character
FoldChar(c) ==
    IF \E i \in 1..Len(UpperChars) : UpperChars[i] = c
    THEN LowerChars[CHOOSE i \in 1..Len(UpperChars) : UpperChars[i] = c]
    ELSE c

\* changed: compares byte for byte
EqualFold_Exact(s, t) == s = t

\* strings.EqualFold
EqualFold(s, t) ==
    /\ Len(s) = Len(t)
    /\ \A i \in 1..Len(s) : FoldChar(s[i]) = FoldChar(t[i])

\* changed: looks at the first character only
ContainsAt_First(s) == Len(s) > 0 /\ s[1] = "@"

\* strings.ContainsAny(s, "@")
ContainsAt(s) == \E i \in 1..Len(s) : s[i] = "@"

\* does old occur in s at position i
OccursAt(s, old, i) ==
    /\ i + Len(old) - 1 <= Len(s)
    /\ \A j \in 1..Len(old) : s[i + j - 1] = old[j]

\* strings.Replace(s, old, new, 1): only the first occurrence is replaced
ReplaceFirst(s, old, new) ==
    IF \E i \in 1..Len(s) : OccursAt(s, old, i)
    THEN LET i == CHOOSE i \in 1..Len(s) :
                      /\ OccursAt(s, old, i)
                      /\ \A h \in 1..(i - 1) : ~OccursAt(s, old, h)
         IN SubSeq(s, 1, i - 1) \o new \o SubSeq(s, i + Len(old), Len(s))
    ELSE s

\* strings.TrimSpace
TrimSpace(s) ==
    IF \A i \in 1..Len(s) : s[i] = " "
    THEN Empty
    ELSE LET a == CHOOSE i \in 1..Len(s) :
                      s[i] # " " /\ \A h \in 1..(i - 1) : s[h] = " "
             b == CHOOSE i \in 1..Len(s) :
                      s[i] # " " /\ \A h \in (i + 1)..Len(s) : s[h] = " "
         IN SubSeq(s, a, b)

\* strings.ReplaceAll(s, "/", ".")
Flatten(s) == [i \in 1..Len(s) |-> IF s[i] = "/" THEN "." ELSE s[i]]

(***************************************************************************)
(* regexp: the fragment the rule patterns use -- an optional leading '^',  *)
(* then literal characters and '.', which matches any character.  A '('    *)
(* is never closed in this fragment, so a pattern holding one does not     *)
(* compile.  Replacements hold no '$', so they are inserted literally.     *)
(***************************************************************************)
\* whether regexp.Compile accepts the pattern
Compiles(k) == \A i \in 1..Len(k) : k[i] # "("

Anchored(k) == Len(k) > 0 /\ k[1] = "^"

Atoms(k) == IF Anchored(k) THEN Tail(k) ELSE k

\* the pattern's atoms match s at position i
MatchAt(atoms, s, i) ==
    /\ i + Len(atoms) - 1 <= Len(s)
    /\ \A j \in 1..Len(atoms) : atoms[j] = "." \/ atoms[j] = s[i + j - 1]

\* leftmost, non-overlapping replacement from position i on
RECURSIVE ReplaceFrom(_, _, _, _)
ReplaceFrom(atoms, repl, s, i) ==
    IF i > Len(s)
    THEN IF Len(atoms) = 0 THEN repl ELSE Empty
    ELSE IF MatchAt(atoms, s, i)
         THEN IF Len(atoms) = 0
              THEN repl \o <<s[i]>> \o ReplaceFrom(atoms, repl, s, i + 1)
              ELSE repl \o ReplaceFrom(atoms, repl, s, i + Len(atoms))
         ELSE <<s[i]>> \o ReplaceFrom(atoms, repl, s, i + 1)

\* regexp.MustCompile(k).ReplaceAllString(s, repl), for a pattern that compiles
ReplaceAllString(k, s, repl) ==
    IF Anchored(k)
    THEN IF MatchAt(Atoms(k), s, 1)
         THEN repl \o SubSeq(s, Len(Atoms(k)) + 1, Len(s))
         ELSE s
    ELSE ReplaceFrom(k, repl, s, 1)

(***************************************************************************)
(* Inputs of a run                                                         *)
(***************************************************************************)
ImgGcrPause == <<"g","c","r",".","i","o","/","g","o","o","g","l","e","-","c","o","n","t","a","i","n","e","r","s","/","p","a","u","s","e",":","3",".","2">>
ImgK8sPause == <<"k","8","s",".","g","c","r",".","i","o","/","p","a","u","s","e",":","3",".","2">>
ImgRegistryPause == <<"r","e","g","i","s","t","r","y",".","k","8","s",".","i","o","/","p","a","u","s","e",":","3",".","2">>
ImgDigest == <<"g","c","r",".","i","o","/","f","o","o","/","b","a","r","@","s","h","a","2","5","6",":","a","b","c","d">>
ImgExample == <<"e","x","a","m","p","l","e",".","c","o","m","/","f","o","o",":","v","1">>
ImgChained == <<"g","c","r",".","i","o","q","u","a","y",".","i","o","/","x",":","1">>
V_mirrorGoogle == <<"m","i","r","r","o","r","/","g","o","o","g","l","e","-","c","o","n","t","a","i","n","e","r","s">>
V_upper == <<"G","C","R",".","I","O">>
K_paren == <<"(">>
NsMirror == <<"m","i","r","r","o","r">>
RegHost == <<"r","e","g",".","i","o">>

\* an issue title as the issue template writes it: "[PORTER] <image>"
Titled(img) == PorterTag \o <<" ">> \o img

\* the rules file: missing, not a YAML string map, or a map
FileAbsent == [kind |-> "absent", rules |-> NoRules]
FileUnparsable == [kind |-> "unparsable", rules |-> NoRules]
FileOf(m) == [kind |-> "mapping", rules |-> m]

RulesStripGcr == (K_gcr :> Empty)
RulesK8sMirror == (K_k8s :> V_mirrorGoogle)
RulesBadPattern == (K_paren :> <<"x">>) @@ (K_gcr :> Empty)
RulesCaseOnly == (K_gcr :> V_upper) @@ (<<"a">> :> <<"A">>)
RulesOverlap == (<<"a">> :> <<"/", "a">>) @@ (<<"/">> :> Empty)

\* every rules file the wide specification draws from
WideFiles ==
    {FileAbsent, FileUnparsable, FileOf(NoRules), FileOf(RulesStripGcr),
     FileOf(RulesK8sMirror), FileOf(RulesBadPattern), FileOf(RulesCaseOnly),
     FileOf(RulesOverlap)}

SmallAlphabet == {"a", "A", "/", "@"}

SmallTitles == UNION {[1..n -> SmallAlphabet] : n \in 1..MaxTitleLen}

WideTitles ==
    {Titled(ImgGcrPause), Titled(ImgK8sPause),
     Titled(ImgDigest), Titled(ImgExample), ImgChained, PorterTag}
    \cup SmallTitles

\* the inputs of the concurrent specification
NarrowFiles == {FileAbsent, FileOf(RulesBadPattern)}
NarrowTitles == {ImgK8sPause, ImgRegistryPause, ImgChained, ImgDigest}

\* the docker calls of mirrorByIssues, each of which can return an error
DockerSteps == {"login", "pull", "tag", "push"}
\* the concurrent specification runs against a docker daemon whose calls succeed
NarrowFailures == {}

(***************************************************************************)
(* mirrorByIssues: the rewriting part                                      *)
(***************************************************************************)
\* originImageName
OriginOf(title) == TrimSpace(ReplaceFirst(title, PorterTag, Empty))

\* The range loop over config.Rules.  Go iterates a map in an unspecified
\* order, so this is the set of strings the loop can leave in
\* targetImageName: front holds <<target so far, keys not yet visited>>.
RECURSIVE RangeRules(_, _)
RangeRules(rules, front) ==
    IF \A f \in front : f[2] = {}
    THEN {f[1] : f \in front}
    ELSE RangeRules(rules,
             UNION {{<<ReplaceAllString(k, f[1], rules[k]), f[2] \ {k}>> : k \in f[2]}
                    : f \in front})

\* regexp.MustCompile panics on the first key that does not compile
LoopPanics(rules) == \E k \in DOMAIN rules : ~Compiles(k)

\* changed: the registry host is put in first, the namespace in front of it
Prefixed_NsFirst(cfg, flat) ==
    LET withReg == IF Len(cfg.Registry) > 0
                   THEN cfg.Registry \o <<"/">> \o flat
                   ELSE flat
    IN  IF Len(cfg.RegistryNamespace) > 0
        THEN cfg.RegistryNamespace \o <<"/">> \o withReg
        ELSE withReg

\* changed: a set namespace replaces the name instead of being put in front
Prefixed_NsOnly(cfg, flat) ==
    LET withNs == IF Len(cfg.RegistryNamespace) > 0
                  THEN cfg.RegistryNamespace
                  ELSE flat
    IN  IF Len(cfg.Registry) > 0
        THEN cfg.Registry \o <<"/">> \o withNs
        ELSE withNs

\* namespace and registry host are put in front of the flattened name
Prefixed(cfg, flat) ==
    LET withNs == IF Len(cfg.RegistryNamespace) > 0
                  THEN cfg.RegistryNamespace \o <<"/">> \o flat
                  ELSE flat
    IN  IF Len(cfg.Registry) > 0
        THEN cfg.Registry \o <<"/">> \o withNs
        ELSE withNs

\* the target of a reference whose rules left t
TargetOf(cfg, t) == Prefixed(cfg, Flatten(t))

(***************************************************************************)
(* Initial state: flags parsed, nothing loaded                             *)
(***************************************************************************)
NoTasks == [i \in {} |-> Empty]

InitWith(files, namespaces, registries) ==
    /\ mainPc = "load"
    /\ rulesFile \in files
    /\ config \in [Registry : registries, RegistryNamespace : namespaces, Rules : {NoRules}]
    /\ issues = <<>>
    /\ pc = NoTasks
    /\ origin = NoTasks
    /\ substituted = NoTasks
    /\ target = NoTasks
    /\ variant = NoTasks
    /\ err = NoTasks
    /\ calls = NoTasks

Init == InitWith(NarrowFiles, {NsMirror}, {Empty})

InitWide == InitWith(WideFiles, {Empty, NsMirror}, {Empty, RegHost})

(***************************************************************************)
(* main                                                                    *)
(***************************************************************************)
\* changed: the file's rules are merged over the defaults
LoadedRules_Merged(file) ==
    IF file.kind = "mapping" THEN file.rules @@ DefaultRules ELSE DefaultRules

\* the rule set main ends up with
LoadedRules(file) == IF file.kind = "mapping" THEN file.rules ELSE DefaultRules

LoadRules ==
    /\ mainPc = "load"
    /\ config' = [config EXCEPT !.Rules = LoadedRules(rulesFile)]
    /\ mainPc' = "fetch"
    /\ UNCHANGED <<rulesFile, issues, pc, origin, substituted, target, variant, err, calls>>

\* ListByRepo fails: os.Exit(-1)
FetchError ==
    /\ mainPc = "fetch"
    /\ mainPc' = "exited"
    /\ UNCHANGED <<rulesFile, config, issues, pc, origin, substituted, target, variant, err, calls>>

\* ListByRepo returns at most maxCount issues; none: os.Exit(0); otherwise one
\* goroutine per issue is started and main waits
Fetch(titles, maxCount) ==
    /\ mainPc = "fetch"
    /\ \E n \in 0..maxCount :
         \E list \in [1..n -> titles] :
            /\ issues' = list
            /\ mainPc' = IF n = 0 THEN "exited" ELSE "wait"
            /\ pc' = [i \in 1..n |-> "progress"]
            /\ origin' = [i \in 1..n |-> Empty]
            /\ substituted' = [i \in 1..n |-> Empty]
            /\ target' = [i \in 1..n |-> Empty]
            /\ variant' = [i \in 1..n |-> "none"]
            /\ err' = [i \in 1..n |-> "unset"]
            /\ calls' = [i \in 1..n |-> <<>>]
    /\ UNCHANGED <<rulesFile, config>>

\* wg.Wait() returns once every goroutine has called wg.Done()
MainReturn ==
    /\ mainPc = "wait"
    /\ \A i \in DOMAIN pc : pc[i] = "done"
    /\ mainPc' = "returned"
    /\ UNCHANGED <<rulesFile, config, issues, pc, origin, substituted, target, variant, err, calls>>

(***************************************************************************)
(* the goroutine of issue i                                                *)
(***************************************************************************)
Call(op, a, b) == [op |-> op, a |-> a, b |-> b]

Running(i, at) == mainPc = "wait" /\ i \in DOMAIN pc /\ pc[i] = at

\* commentIssues with the build link; its error is only printed
CommentProgress(i) ==
    /\ Running(i, "progress")
    /\ calls' = [calls EXCEPT ![i] = Append(@, Call("comment", <<"progress">>, Empty))]
    /\ pc' = [pc EXCEPT ![i] = "mirror"]
    /\ UNCHANGED <<mainPc, rulesFile, config, issues, origin, substituted, target, variant, err>>

\* mirrorByIssues up to the docker login
Rewrite(i) ==
    /\ Running(i, "mirror")
    /\ LET o == OriginOf(issues[i]) IN
       /\ origin' = [origin EXCEPT ![i] = o]
       /\ IF ContainsAt(o)
          THEN /\ substituted' = [substituted EXCEPT ![i] = o]
               /\ target' = [target EXCEPT ![i] = o]
               /\ variant' = [variant EXCEPT ![i] = "Rejected"]
               /\ err' = [err EXCEPT ![i] = "digest"]
               /\ pc' = [pc EXCEPT ![i] = "commentErr"]
               /\ UNCHANGED mainPc
          ELSE IF LoopPanics(config.Rules)
          THEN /\ substituted' = [substituted EXCEPT ![i] = o]
               /\ target' = [target EXCEPT ![i] = o]
               /\ variant' = [variant EXCEPT ![i] = "Panic"]
               /\ mainPc' = "crashed"
               /\ UNCHANGED <<err, pc>>
          ELSE \E t \in RangeRules(config.Rules, {<<o, DOMAIN config.Rules>>}) :
               /\ substituted' = [substituted EXCEPT ![i] = t]
               /\ IF EqualFold(t, o)
                  THEN /\ target' = [target EXCEPT ![i] = t]
                       /\ variant' = [variant EXCEPT ![i] = "NoMatch"]
                       /\ err' = [err EXCEPT ![i] = "nomatch"]
                       /\ pc' = [pc EXCEPT ![i] = "commentErr"]
                       /\ UNCHANGED mainPc
                  ELSE /\ target' = [target EXCEPT ![i] = TargetOf(config, t)]
                       /\ variant' = [variant EXCEPT ![i] = "Rewritten"]
                       /\ pc' = [pc EXCEPT ![i] = "login"]
                       /\ UNCHANGED <<mainPc, err>>
    /\ UNCHANGED <<rulesFile, config, issues, calls>>

\* changed: the error is recorded but the return is missing
DockerStep_NoReturn(i, at, call, next, mayFail) ==
    /\ mainPc = "wait" /\ i \in DOMAIN pc /\ pc[i] = at
    /\ calls' = [calls EXCEPT ![i] = Append(@, call)]
    /\ \E ok \in (IF at \in mayFail THEN BOOLEAN ELSE {TRUE}) :
         /\ pc' = [pc EXCEPT ![i] = IF next = "result" /\ ~ok THEN "commentErr" ELSE next]
         /\ err' = IF ok
                   THEN (IF next = "result" /\ err[i] = "unset"
                         THEN [err EXCEPT ![i] = "nil"] ELSE err)
                   ELSE [err EXCEPT ![i] = at]
    /\ UNCHANGED <<mainPc, rulesFile, config, issues, origin, substituted, target, variant>>

\* one docker step of mirrorByIssues: the call is made; when it fails
\* mirrorByIssues returns that error, otherwise it goes on to the next step.
\* mayFail names the steps the environment lets fail.
DockerStep(i, at, call, next, mayFail) ==
    /\ Running(i, at)
    /\ calls' = [calls EXCEPT ![i] = Append(@, call)]
    /\ \E ok \in (IF at \in mayFail THEN BOOLEAN ELSE {TRUE}) :
         IF ok
         THEN /\ pc' = [pc EXCEPT ![i] = next]
              /\ err' = IF next = "result" THEN [err EXCEPT ![i] = "nil"] ELSE err
         ELSE /\ pc' = [pc EXCEPT ![i] = "commentErr"]
              /\ err' = [err EXCEPT ![i] = at]
    /\ UNCHANGED <<mainPc, rulesFile, config, issues, origin, substituted, target, variant>>

DockerLogin(i, mayFail) ==
    DockerStep(i, "login", Call("login", config.Registry, Empty), "pull", mayFail)

DockerPull(i, mayFail) ==
    DockerStep(i, "pull", Call("pull", origin[i], Empty), "tag", mayFail)

DockerTag(i, mayFail) ==
    DockerStep(i, "tag", Call("tag", origin[i], target[i]), "push", mayFail)

DockerPush(i, mayFail) ==
    DockerStep(i, "push", Call("push", target[i], Empty), "result", mayFail)

\* the error of mirrorByIssues is posted as a comment
CommentErr(i) ==
    /\ Running(i, "commentErr")
    /\ calls' = [calls EXCEPT ![i] = Append(@, Call("comment", <<"error">>, <<err[i]>>))]
    /\ pc' = [pc EXCEPT ![i] = "result"]
    /\ UNCHANGED <<mainPc, rulesFile, config, issues, origin, substituted, target, variant, err>>

\* Result.Success
Success(e) == e = "nil"

\* the rendered result template is posted as a comment
CommentResult(i) ==
    /\ Running(i, "result")
    /\ calls' = [calls EXCEPT ![i] =
                    Append(@, Call("comment", <<"result">>,
                                   <<IF Success(err[i]) THEN "ok" ELSE "failed">>))]
    /\ pc' = [pc EXCEPT ![i] = "label"]
    /\ UNCHANGED <<mainPc, rulesFile, config, issues, origin, substituted, target, variant, err>>

\* the label issuesAddLabels adds
LabelOf(success) == IF success THEN "success" ELSE "failed"

AddLabel(i) ==
    /\ Running(i, "label")
    /\ calls' = [calls EXCEPT ![i] =
                    Append(@, Call("label", <<LabelOf(Success(err[i]))>>, Empty))]
    /\ pc' = [pc EXCEPT ![i] = "close"]
    /\ UNCHANGED <<mainPc, rulesFile, config, issues, origin, substituted, target, variant, err>>

\* issuesClose, then the deferred wg.Done()
Close(i) ==
    /\ Running(i, "close")
    /\ calls' = [calls EXCEPT ![i] = Append(@, Call("close", Empty, Empty))]
    /\ pc' = [pc EXCEPT ![i] = "done"]
    /\ UNCHANGED <<mainPc, rulesFile, config, issues, origin, substituted, target, variant, err>>

Task(i, mayFail) ==
    \/ CommentProgress(i)
    \/ Rewrite(i)
    \/ DockerLogin(i, mayFail)
    \/ DockerPull(i, mayFail)
    \/ DockerTag(i, mayFail)
    \/ DockerPush(i, mayFail)
    \/ CommentErr(i)
    \/ CommentResult(i)
    \/ AddLabel(i)
    \/ Close(i)

Tasks(mayFail) == \E i \in DOMAIN pc : Task(i, mayFail)

(***************************************************************************)
(* Specifications                                                          *)
(***************************************************************************)
\* a run with --github.max_count up to MaxIssues: concurrent goroutines
Next ==
    \/ LoadRules
    \/ FetchError
    \/ Fetch(NarrowTitles, MaxIssues)
    \/ Tasks(NarrowFailures)
    \/ MainReturn

Spec == Init /\ [][Next]_vars

\* a run with the default --github.max_count, over the wide inputs
NextWide ==
    \/ LoadRules
    \/ FetchError
    \/ Fetch(WideTitles, DefaultMaxCount)
    \/ Tasks(DockerSteps)
    \/ MainReturn

SpecWide == InitWide /\ [][NextWide]_vars

(***************************************************************************)
(* Properties                                                              *)
(***************************************************************************)
Tasked == DOMAIN pc

\* the goroutine of issue i is past the rewriting part of mirrorByIssues
Rewrote(i) == variant[i] # "none"

HasDigestMarker(s) == \E n \in 1..Len(s) : s[n] = "@"

SameIgnoringCase(s, t) ==
    /\ Len(s) = Len(t)
    /\ \A n \in 1..Len(s) : s[n] = t[n] \/ FoldChar(s[n]) = FoldChar(t[n])

\* s with every '/' turned into '.'
Dotted(s) == [n \in 1..Len(s) |-> IF s[n] = "/" THEN "." ELSE s[n]]

\* every string the rule loop can leave for the source o
Substituted(o) == RangeRules(config.Rules, {<<o, DOMAIN config.Rules>>})

IsDockerCall(c) == c.op \in DockerSteps

DockerCalls(i) == SelectSeq(calls[i], IsDockerCall)

IsPrefix(s, t) == Len(s) <= Len(t) /\ s = SubSeq(t, 1, Len(s))

\* C1: a source holding '@' is rejected whatever the rule set is: the target
\* returned equals the source and no docker call is made for it.
C1_DigestRejected ==
    \A i \in Tasked :
        /\ HasDigestMarker(OriginOf(issues[i])) => DockerCalls(i) = <<>>
        /\ Rewrote(i) /\ HasDigestMarker(origin[i]) =>
              /\ variant[i] = "Rejected"
              /\ err[i] = "digest"
              /\ origin[i] = OriginOf(issues[i])
              /\ substituted[i] = origin[i]
              /\ target[i] = origin[i]

\* C1 witness: a digest reference was rejected under a rule set whose rules
\* could not even have been applied, and its goroutine finished
C1_Witness ==
    \E i \in Tasked :
        /\ pc[i] = "done"
        /\ origin[i] = ImgDigest
        /\ variant[i] = "Rejected"
        /\ LoopPanics(config.Rules)

\* C2: a source without '@' ends NoMatch exactly when the string left after
\* every rule was applied equals the source ignoring case; then the target is
\* that string, unflattened and unprefixed, and no docker call is made.  With
\* no rules every such source ends NoMatch.
C2_NoMatchAfterAllRules ==
    \A i \in Tasked :
        Rewrote(i) /\ ~HasDigestMarker(origin[i]) /\ variant[i] # "Panic" =>
            /\ variant[i] \in {"NoMatch", "Rewritten"}
            /\ substituted[i] \in Substituted(origin[i])
            /\ variant[i] = "NoMatch" <=> SameIgnoringCase(substituted[i], origin[i])
            /\ variant[i] = "NoMatch" =>
                  /\ target[i] = substituted[i]
                  /\ err[i] = "nomatch"
                  /\ DockerCalls(i) = <<>>
            /\ config.Rules = NoRules => variant[i] = "NoMatch"

\* C2 witness: NoMatch although the rules changed the string (its case only)
C2_Witness ==
    \E i \in Tasked :
        /\ pc[i] = "done"
        /\ variant[i] = "NoMatch"
        /\ substituted[i] # origin[i]

\* C3: "gcr.io/google-containers/pause:3.2" under the single rule {"^gcr.io": ""},
\* namespace "mirror" and no registry host is rewritten to
\* "mirror/google-containers.pause:3.2".
C3_BasicRewrite ==
    \A i \in Tasked :
        /\ variant[i] = "Rewritten"
        /\ origin[i] = ImgGcrPause
        /\ config.Rules = RulesStripGcr
        /\ config.RegistryNamespace = NsMirror
        /\ config.Registry = Empty
        => target[i] = NsMirror \o <<"/">> \o V_google
                       \o <<".","p","a","u","s","e",":","3",".","2">>

\* C4: a rewritten target is [registryHost "/"] [namespace "/"] flattened, the
\* host first, each prefix only when set, where flattened is the whole string
\* left by the rules with every '/' turned into '.'.
C4_TargetShape ==
    \A i \in Tasked :
        variant[i] = "Rewritten" =>
            /\ LET flat == Dotted(substituted[i]) IN
                  /\ \A n \in 1..Len(flat) : flat[n] # "/"
                  /\ target[i] =
                        (IF config.Registry # Empty THEN config.Registry \o <<"/">> ELSE Empty)
                        \o (IF config.RegistryNamespace # Empty
                            THEN config.RegistryNamespace \o <<"/">> ELSE Empty)
                        \o flat
            /\ (/\ origin[i] = ImgK8sPause
                /\ config.Rules = RulesK8sMirror
                /\ config.Registry = Empty
                /\ config.RegistryNamespace = Empty)
               => target[i] = <<"m","i","r","r","o","r",".">> \o V_google
                              \o <<".","p","a","u","s","e",":","3",".","2">>

\* C4 witness: the replacement's own '/' was flattened, and both prefixes were set
C4_Witness ==
    \E i \in Tasked :
        /\ pc[i] = "done"
        /\ variant[i] = "Rewritten"
        /\ origin[i] = ImgK8sPause
        /\ config.Rules = RulesK8sMirror
        /\ target[i] = RegHost \o <<"/">> \o NsMirror \o <<"/">>
                       \o <<"m","i","r","r","o","r",".">> \o V_google
                       \o <<".","p","a","u","s","e",":","3",".","2">>

\* C5: two invocations with the same source, rule set, namespace and registry
\* host return the same outcome, whatever order the rules are iterated in.
C5_Deterministic ==
    \A i, j \in Tasked :
        issues[i] = issues[j] /\ Rewrote(i) /\ Rewrote(j) =>
            variant[i] = variant[j] /\ target[i] = target[j]

\* C6: a pattern that is no regular expression is reported when the rules are
\* loaded; once issues are processed the rewriting never faults and every
\* reference ends Rewritten, NoMatch or Rejected.
C6_NoFaultWhileRewriting ==
    /\ mainPc # "crashed"
    /\ \A i \in Tasked : Rewrote(i) => variant[i] \in {"Rewritten", "NoMatch", "Rejected"}

\* C7 as claimed: after loading, every default pattern the file does not
\* specify is in the rule set with its default replacement, and the file's
\* replacement wins for the patterns it specifies.
C7_DefaultsMerged ==
    mainPc # "load" =>
        /\ \A k \in DOMAIN DefaultRules :
              /\ k \in DOMAIN config.Rules
              /\ config.Rules[k] =
                    IF rulesFile.kind = "mapping" /\ k \in DOMAIN rulesFile.rules
                    THEN rulesFile.rules[k] ELSE DefaultRules[k]
        /\ rulesFile.kind # "mapping" => config.Rules = DefaultRules

\* C7 amended: after loading, the rule set is exactly the file's mapping when
\* the file is read and parsed (defaults it does not specify are absent), and
\* exactly the defaults otherwise; no goroutine changes it afterwards.
C7_FileReplacesDefaults ==
    mainPc # "load" =>
        /\ rulesFile.kind = "mapping" => config.Rules = rulesFile.rules
        /\ rulesFile.kind \in {"absent", "unparsable"} =>
              /\ DOMAIN config.Rules = {K_gcr, K_docker, K_k8s, K_registry, K_quay, K_ghcr}
              /\ config.Rules = DefaultRules

\* C7 witness: a goroutine finished under a parsed file that leaves defaults out
C7_Witness ==
    /\ rulesFile.kind = "mapping"
    /\ K_gcr \in DOMAIN config.Rules
    /\ K_docker \notin DOMAIN config.Rules
    /\ \E i \in Tasked : pc[i] = "done"

\* C8 as claimed: two distinct sources that are both rewritten get distinct targets.
C8_CollisionFree ==
    \A i, j \in Tasked :
        /\ variant[i] = "Rewritten"
        /\ variant[j] = "Rewritten"
        /\ origin[i] # origin[j]
        => target[i] # target[j]

\* C8 amended: two rewritten sources get distinct targets whenever the strings
\* the rules leave for them differ once every '/' is turned into '.'; sources
\* whose strings coincide that way do collide.
C8_DistinctUnlessSameFlattened ==
    \A i, j \in Tasked :
        /\ variant[i] = "Rewritten"
        /\ variant[j] = "Rewritten"
        /\ Dotted(substituted[i]) # Dotted(substituted[j])
        => target[i] # target[j]

\* C8 witness: two distinct sources were rewritten to distinct targets
C8_Witness ==
    \E i, j \in Tasked :
        /\ pc[i] = "done" /\ pc[j] = "done"
        /\ variant[i] = "Rewritten" /\ variant[j] = "Rewritten"
        /\ origin[i] = ImgK8sPause /\ origin[j] = ImgChained
        /\ target[i] # target[j]

\* C9: docker login, pull(source), tag(source -> target), push(target) happen in
\* that order, each only after the one before succeeded; the step that fails is
\* the last one made and its error is returned; nil is returned only after all
\* four; a Rejected or NoMatch reference gets no docker call.
C9_DockerOrder ==
    \A i \in Tasked :
        LET all == <<Call("login", config.Registry, Empty),
                     Call("pull", origin[i], Empty),
                     Call("tag", origin[i], target[i]),
                     Call("push", target[i], Empty)>>
            made == DockerCalls(i)
        IN  /\ IsPrefix(made, all)
            /\ variant[i] # "Rewritten" => made = <<>>
            /\ err[i] = "nil" => made = all
            /\ err[i] \in DockerSteps => made # <<>> /\ made[Len(made)].op = err[i]
            /\ (variant[i] = "Rewritten" /\ pc[i] \notin {"login", "pull", "tag", "push"})
                  => err[i] \in DockerSteps \cup {"nil"}

\* C9 witness: the tag failed, so nothing was pushed, and the goroutine finished
C9_Witness ==
    \E i \in Tasked :
        /\ pc[i] = "done"
        /\ err[i] = "tag"
        /\ Len(DockerCalls(i)) = 3

\* the calls that report the outcome of issue i: result comment, one label, close
Reported(i) ==
    /\ Len(calls[i]) >= 3
    /\ SubSeq(calls[i], Len(calls[i]) - 2, Len(calls[i])) =
          <<Call("comment", <<"result">>, <<IF err[i] = "nil" THEN "ok" ELSE "failed">>),
            Call("label", <<IF err[i] = "nil" THEN "success" ELSE "failed">>, Empty),
            Call("close", Empty, Empty)>>
    /\ Cardinality({n \in 1..Len(calls[i]) : calls[i][n].op = "label"}) = 1

\* C10: whatever the interleaving, every fetched issue gets its result comment,
\* then exactly one label ("success" iff mirrorByIssues returned no error),
\* then is closed; main ends only after every goroutine has finished, and no
\* goroutine changes what happens to another's issue.
C10_EveryIssueReported ==
    mainPc \in {"returned", "crashed"} =>
        \A i \in Tasked : pc[i] = "done" /\ Reported(i)

====
